---- MODULE Spec2Model ----
(***************************************************************************)
(* A model of the time-tracking TUI (src/src/main.rs): the stored task     *)
(* collection behind read_db/update_db, the UI state machine               *)
(* App::transition, the table selection, and the key handlers of the event *)
(* loop in main.  One action is one iteration of the loop: the draw, the   *)
(* receive of one message and the whole handler of that message.           *)
(* Spec takes the sending and the receiving of a message as one step;      *)
(* QueueSpec puts the mpsc channel of the input-polling thread between     *)
(* them.  TransitionSpec, DurationSpec and ReportSpec apply one function   *)
(* of the program to every input of a bounded set.                         *)
(*                                                                         *)
(* Strings are sequences of one-character strings.  Instants are integers  *)
(* (ticks of 1/TicksPerSecond s); every call of Utc::now() is a reading of *)
(* a non-decreasing clock.  usize is modelled with a small width           *)
(* (UsizeMax) so that the wrapping subtraction of a build without overflow *)
(* checks is observable; whether the build checks overflow is chosen at    *)
(* each subtraction that underflows (the arms that cannot underflow pass   *)
(* TRUE).                                                                  *)
(***************************************************************************)
EXTENDS Integers, Sequences, FiniteSets, TLC

VARIABLES
    file,        \* ./data/db.json: missing, empty, or a JSON array of tasks
    state,       \* app.state: the State enum, with the CreateProject input
    selected,    \* task_list_state.selected(): always Some(selected)
    proc,        \* the process: "running", "panicked", "failed", "exited"
    term,        \* the terminal: raw mode and alternate screen
    now,         \* the latest reading of the system clock
    last,        \* the arm of the loop taken last, its readings of the clock
                 \* and what it wrote to ./reports/latest_report.csv
    chan         \* the mpsc channel from the input-polling thread to the loop

vars == <<file, state, selected, proc, term, now, last, chan>>

----------------------------------------------------------------------------
(* Bounds of the model *)

MaxTasks == 2      \* tasks in the collection
MaxFrames == 2     \* TimeFrames per task
MaxTime == 2       \* the clock stops advancing here (ticks)
MaxInput == 1      \* characters in the CreateProject buffer
ClockStep == 1     \* ticks between two readings of the clock, at most
TicksPerSecond == 2  \* resolution of an instant
UsizeMax == 3      \* usize::MAX of the modelled width
MaxDur == 4000     \* seconds, the durations given to the report formatter
MaxInstant == 4    \* the instants of the tasks given to total_duration (ticks)
MaxSent == 5       \* messages the input-polling thread sends
MaxTyped == 4      \* characters of the buffers given to App::transition

----------------------------------------------------------------------------
(* Keys *)

CharKeys == {"q", "j", "k", " ", "a", "d", "r", "?", "y", "n", "e'"}
NamedKeys == {"Down", "Up", "Enter", "Esc", "Backspace", "Tab"}
KeyCodes == CharKeys \cup NamedKeys

\* The characters typed into the CreateProject buffer ("e'" is U+00E9, which
\* is two bytes long).
TypedChars == {"q"}

\* char::len_utf8
Utf8Len(c) == IF c = "e'" THEN 2 ELSE 1

Min(a, b) == IF a <= b THEN a ELSE b
Max(a, b) == IF a >= b THEN a ELSE b

----------------------------------------------------------------------------
(* usize arithmetic *)

\* The build's overflow-checks setting: on in a debug build, off in a
\* release build.
OverflowChecks == BOOLEAN

\* a - b on usize: a panic with overflow checks, a wrap without them.
usize_sub(a, b, checks) ==
    IF a >= b THEN [ok |-> TRUE, v |-> a - b]
    ELSE IF checks THEN [ok |-> FALSE, v |-> 0]
    ELSE [ok |-> TRUE, v |-> a - b + UsizeMax + 1]

----------------------------------------------------------------------------
(* Task, TimeFrame *)

None == [some |-> FALSE, at |-> 0]
Some(t) == [some |-> TRUE, at |-> t]

Task(id, project, created_at) ==
    [id |-> id, project |-> project, created_at |-> created_at,
     running_since |-> None, times |-> <<>>]

TimeFrame(id, start_time, end_time) ==
    [id |-> id, start_time |-> start_time, end_time |-> end_time]

is_running(task) == task.running_since.some

\* Rust's integer division and remainder truncate toward zero.
TruncDiv(a, b) == IF a >= 0 THEN a \div b ELSE -((-a) \div b)
TruncRem(a, b) == a - b * TruncDiv(a, b)

\* chrono::Duration::num_seconds of a difference of instants d (in ticks).
num_seconds(d) == TruncDiv(d, TicksPerSecond)

\* Task::current_duration, as a difference of instants; t is Utc::now().
current_duration(task, t) ==
    IF task.running_since.some THEN t - task.running_since.at ELSE 0

RECURSIVE past_ticks(_)
past_ticks(times) ==
    IF times = <<>> THEN 0
    ELSE past_ticks(SubSeq(times, 1, Len(times) - 1))
         + (times[Len(times)].end_time - times[Len(times)].start_time)

\* a fold that adds the TimeFrames up before it takes the whole seconds
past_duration_untruncated(times) == num_seconds(past_ticks(times))

RECURSIVE past_duration(_)
\* the fold of Task::total_duration over times (whole seconds)
past_duration(times) ==
    IF times = <<>> THEN 0
    ELSE past_duration(SubSeq(times, 1, Len(times) - 1))
         + num_seconds(times[Len(times)].end_time - times[Len(times)].start_time)

\* Task::total_duration in whole seconds; t is Utc::now().
total_duration(task, t) ==
    past_duration(task.times) + num_seconds(current_duration(task, t))

----------------------------------------------------------------------------
(* Formatting *)

Digit(n) == CASE n = 0 -> "0" [] n = 1 -> "1" [] n = 2 -> "2" [] n = 3 -> "3"
              [] n = 4 -> "4" [] n = 5 -> "5" [] n = 6 -> "6" [] n = 7 -> "7"
              [] n = 8 -> "8" [] n = 9 -> "9"

RECURSIVE Display(_)
\* the Display of an i64
Display(n) ==
    IF n < 0 THEN <<"-">> \o Display(-n)
    ELSE IF n < 10 THEN <<Digit(n)>>
    ELSE Display(n \div 10) \o <<Digit(n % 10)>>

\* the format spec {:0>2}: right-aligned in a width of 2, filled with '0'
Pad2(str) == IF Len(str) >= 2 THEN str
             ELSE IF Len(str) = 1 THEN <<"0">> \o str ELSE <<"0", "0">>

\* ((secs as f64) / 60.0 / 15.0).ceil(): exact on the modelled range, where
\* secs / 60.0 and the quotient by 15.0 carry no rounding error that reaches
\* an integer.
CeilQuarters(secs) == -((-secs) \div 900)

\* format_duration_report, on a duration of secs whole seconds
format_duration_report(secs) ==
    LET total_minutes == CeilQuarters(secs) * 15
        minutes == TruncRem(total_minutes, 60)
        hours == TruncDiv(TruncDiv(total_minutes, 60), 60)
    IN  Pad2(Display(hours)) \o <<":">> \o Pad2(Display(minutes))

----------------------------------------------------------------------------
(* The store: read_db and update_db *)

NoFile == [kind |-> "missing", tasks |-> <<>>]
EmptyFile == [kind |-> "empty", tasks |-> <<>>]

\* serde_json::to_vec of the collection, as the contents of the file
to_vec(tasks) == [kind |-> "json", tasks |-> tasks]

\* serde_json::from_str::<Vec<Task>>: the empty string is a parse error
from_str(content) ==
    IF content.kind = "json" THEN [ok |-> TRUE, tasks |-> content.tasks]
    ELSE [ok |-> FALSE, tasks |-> <<>>]

\* a read_db that takes a missing file for an error
read_db_no_bootstrap(f) == from_str(f)

\* read_db: a missing file reads as "[]"
read_db(f) ==
    IF f.kind = "missing" THEN from_str(to_vec(<<>>)) ELSE from_str(f)

\* the collection a load of the store yields
Tasks == read_db(file).tasks

----------------------------------------------------------------------------
(* The UI state machine: App::transition *)

St(tag, input) == [tag |-> tag, input |-> input]
Projects == St("Projects", <<>>)
Help == St("Help", <<>>)
DeleteProject == St("DeleteProject", <<>>)
CreateProject(input) == St("CreateProject", input)

Tr(t, c) == [t |-> t, c |-> c]
CreateNew == Tr("CreateNew", "")
Delete == Tr("Delete", "")
Escape == Tr("Escape", "")
ShowHelp == Tr("ShowHelp", "")
InputCharacter(c) == Tr("InputCharacter", c)

RECURSIVE ByteLen(_)
\* String::len: the length in bytes
ByteLen(str) ==
    IF str = <<>> THEN 0
    ELSE ByteLen(SubSeq(str, 1, Len(str) - 1)) + Utf8Len(str[Len(str)])

\* &str[0..n]: a panic when n is past the end or inside a character
ByteSlice(str, n) ==
    LET cut == {k \in 0..Len(str) : ByteLen(SubSeq(str, 1, k)) = n}
    IN  IF cut = {} THEN [ok |-> FALSE, str |-> <<>>]
        ELSE [ok |-> TRUE, str |-> SubSeq(str, 1, CHOOSE k \in cut : TRUE)]

\* App::transition in a build with the given overflow checks;
\* [ok |-> FALSE] is a panic
transition(st, tr, checks) ==
    CASE st.tag = "Projects" /\ tr = CreateNew ->
            [ok |-> TRUE, state |-> CreateProject(<<>>)]
      [] st.tag = "Projects" /\ tr = Delete ->
            [ok |-> TRUE, state |-> DeleteProject]
      [] st.tag = "Projects" /\ tr = ShowHelp ->
            [ok |-> TRUE, state |-> Help]
      [] st.tag = "Help" /\ tr = Escape ->
            [ok |-> TRUE, state |-> Projects]
      [] st.tag = "CreateProject" /\ tr.t = "InputCharacter" ->
            [ok |-> TRUE, state |-> CreateProject(Append(st.input, tr.c))]
      [] st.tag = "CreateProject" /\ tr = Delete ->
            LET end == usize_sub(ByteLen(st.input), 1, checks)
                cut == ByteSlice(st.input, end.v)
            IN  IF end.ok /\ cut.ok
                THEN [ok |-> TRUE, state |-> CreateProject(cut.str)]
                ELSE [ok |-> FALSE, state |-> st]
      [] st.tag = "CreateProject" /\ tr = Escape ->
            [ok |-> TRUE, state |-> Projects]
      [] st.tag = "DeleteProject" /\ tr = Escape ->
            [ok |-> TRUE, state |-> Projects]
      [] OTHER -> [ok |-> TRUE, state |-> st]

----------------------------------------------------------------------------
(* The updaters passed to update_db *)

Running(tasks) == {i \in 1..Len(tasks) : is_running(tasks[i])}

\* a toggle loop that stops nothing
close_running_skip(tasks, rs) == tasks

\* a toggle loop that stops the running tasks without a TimeFrame
close_running_no_frame(tasks, rs) ==
    [i \in 1..Len(tasks) |-> [tasks[i] EXCEPT !.running_since = None]]

\* the loop of the toggle handler: every running task is stopped and gets a
\* TimeFrame ending at its own reading of the clock, rs[1], rs[2], ...
close_running(tasks, rs) ==
    [i \in 1..Len(tasks) |->
        IF is_running(tasks[i])
        THEN [tasks[i] EXCEPT
                !.running_since = None,
                !.times = Append(@, TimeFrame(Len(@), tasks[i].running_since.at,
                                    rs[Cardinality({j \in Running(tasks) : j <= i})]))]
        ELSE tasks[i]]

\* a toggle that stamps the started task with the first reading of the clock
toggle_first_reading(tasks, sel, rs) ==
    IF sel >= Len(tasks) THEN [ok |-> FALSE, tasks |-> tasks]
    ELSE LET is_run == is_running(tasks[sel + 1])
             closed == close_running(tasks, rs)
         IN  [ok |-> TRUE,
              tasks |-> IF ~is_run
                        THEN [closed EXCEPT ![sel + 1].running_since = Some(rs[1])]
                        ELSE closed]

\* a toggle that starts the selected task whether or not it was running
toggle_restart(tasks, sel, rs) ==
    IF sel >= Len(tasks) THEN [ok |-> FALSE, tasks |-> tasks]
    ELSE [ok |-> TRUE,
          tasks |-> [close_running(tasks, rs) EXCEPT
                        ![sel + 1].running_since = Some(rs[Len(rs)])]]

\* the updater of the toggle handler on index sel; rs are the readings of
\* the clock it makes, in order
toggle(tasks, sel, rs) ==
    IF sel >= Len(tasks) THEN [ok |-> FALSE, tasks |-> tasks]
    ELSE LET is_run == is_running(tasks[sel + 1])
             closed == close_running(tasks, rs)
         IN  [ok |-> TRUE,
              tasks |-> IF ~is_run
                        THEN [closed EXCEPT ![sel + 1].running_since =
                                                Some(rs[Len(rs)])]
                        ELSE closed]

\* the readings of the clock the toggle updater makes
toggle_calls(tasks, sel) ==
    IF sel >= Len(tasks) THEN 0
    ELSE Cardinality(Running(tasks)) + (IF is_running(tasks[sel + 1]) THEN 0 ELSE 1)

\* a push that numbers the tasks from 1
push_task_from_one(tasks, input, t) ==
    [ok |-> TRUE, tasks |-> Append(tasks, Task(Len(tasks) + 1, input, t))]

\* the updater of the CreateProject Enter handler
push_task(tasks, input, t) ==
    [ok |-> TRUE, tasks |-> Append(tasks, Task(Len(tasks), input, t))]

\* Vec::remove in the updater of the DeleteProject handler
remove_task(tasks, sel) ==
    IF sel >= Len(tasks) THEN [ok |-> FALSE, tasks |-> tasks]
    ELSE [ok |-> TRUE,
          tasks |-> SubSeq(tasks, 1, sel) \o SubSeq(tasks, sel + 2, Len(tasks))]

\* the collection update_db hands to the updater
Parsed(f) == IF f.kind = "json" THEN f.tasks ELSE <<>>

\* the three closures passed to update_db, with what they capture
ToggleUpdater(sel, rs) == [fn |-> "toggle", sel |-> sel, rs |-> rs, input |-> <<>>]
PushUpdater(input, rs) == [fn |-> "push", sel |-> 0, rs |-> rs, input |-> input]
RemoveUpdater(sel) == [fn |-> "remove", sel |-> sel, rs |-> <<>>, input |-> <<>>]

\* updater(&mut parsed); [ok |-> FALSE] is a panic
call(updater, tasks) ==
    CASE updater.fn = "toggle" -> toggle(tasks, updater.sel, updater.rs)
      [] updater.fn = "push" -> push_task(tasks, updater.input, updater.rs[1])
      [] updater.fn = "remove" -> remove_task(tasks, updater.sel)

\* update_db: the file is created by the open, and written after the
\* updater returns; res is what becomes of the process
update_db(f, updater) ==
    LET opened == IF f.kind = "missing" THEN EmptyFile ELSE f
        db_content == IF opened.kind = "empty" THEN to_vec(<<>>) ELSE opened
        parsed == from_str(db_content)
        out == call(updater, parsed.tasks)
    IN  IF ~parsed.ok THEN [res |-> "failed", file |-> opened]
        ELSE IF ~out.ok THEN [res |-> "panicked", file |-> opened]
        ELSE [res |-> "running", file |-> to_vec(out.tasks)]

----------------------------------------------------------------------------
(* The clock *)

\* n successive readings of Utc::now()
Readings(n) ==
    {rs \in [1..n -> now..Max(now, Min(now + ClockStep, MaxTime))] :
        \A i \in 1..(n - 1) : rs[i] <= rs[i + 1]}

Latest(rs) == IF Len(rs) = 0 THEN now ELSE rs[Len(rs)]

----------------------------------------------------------------------------
(* The report *)

\* the csv of the report handler; rs[k] is the reading of the clock in
\* total_duration of the k-th running task
csv(tasks, rs) ==
    <<<<"Project,Duration">>>> \o
    [i \in 1..Len(tasks) |->
        tasks[i].project \o <<",">> \o
        format_duration_report(
            total_duration(tasks[i],
                IF is_running(tasks[i])
                THEN rs[Cardinality({j \in Running(tasks) : j <= i})]
                ELSE now))]

----------------------------------------------------------------------------
(* The event loop of main *)

\* no transition on record
NoTransition == Tr("None", "")

\* no duration on record
NoDuration == [current |-> 0, total |-> 0]

\* what last records: the arm, the readings of the clock it made, the csv it
\* wrote, whether it is a toggle directly after a toggle, the kind of store
\* file the arm found, the transition of a bare call of App::transition, and
\* what a bare call of Task::total_duration returned
Arm(arm, rs) == [arm |-> arm, clock |-> rs, csv |-> <<>>, again |-> FALSE,
                 store |-> file.kind, tr |-> NoTransition, dur |-> NoDuration]

\* The channel.  With queued = FALSE the channel is left out: a message is
\* sent and received in the one step of its handler.  With queued = TRUE rx
\* holds the messages sent and not yet received, sent is every message sent
\* and nrecv the number of messages received.
NoQueue == [queued |-> FALSE, rx |-> <<>>, sent |-> <<>>, nrecv |-> 0]
EmptyQueue == [queued |-> TRUE, rx |-> <<>>, sent |-> <<>>, nrecv |-> 0]

\* a receive that takes the message sent last
recv_newest(rx) ==
    [msg |-> rx[Len(rx)], rest |-> SubSeq(rx, 1, Len(rx) - 1)]

\* rx.recv() on a channel that holds a message: the one sent first
recv(rx) == [msg |-> Head(rx), rest |-> Tail(rx)]

\* tx.send(msg)
send(ch, msg) ==
    [ch EXCEPT !.rx = Append(@, msg), !.sent = Append(@, msg)]

\* the loop receives one message, which is one of msgs
Recv(msgs) ==
    IF chan.queued
    THEN /\ chan.rx # <<>>
         /\ recv(chan.rx).msg \in msgs
         /\ chan' = [chan EXCEPT !.rx = recv(chan.rx).rest, !.nrecv = @ + 1]
    ELSE UNCHANGED chan

RawScreen == [raw |-> TRUE, alt |-> TRUE]
Restored == [raw |-> FALSE, alt |-> FALSE]

\* the state main enters its loop in, for a given store and clock
Init ==
    /\ file = NoFile
    /\ state = Projects
    /\ selected = 0
    /\ proc = "running"
    /\ term = RawScreen
    /\ now = 0
    /\ last = Arm("start", <<>>)
    /\ chan = NoQueue

\* terminal.draw: in Projects render_tasks loads the store and expects it
DrawOk == state.tag = "Projects" => read_db(file).ok

\* the loop is at its draw, and the draw succeeds
Looping == proc = "running" /\ DrawOk

\* the draw panics: render_tasks cannot load the store
DrawPanic ==
    /\ proc = "running" /\ ~DrawOk
    /\ proc' = "panicked"
    /\ last' = Arm("draw", <<>>)
    /\ UNCHANGED <<file, state, selected, term, now, chan>>

\* Event::Tick: nothing but the next draw; time passes
Tick ==
    /\ Looping
    /\ Recv({"Tick"})
    /\ \E rs \in Readings(1) : now' = rs[1]
    /\ last' = Arm("Tick", <<>>)
    /\ UNCHANGED <<file, state, selected, proc, term>>

\* a quit key that ends the loop in every UI state
KeyQuitAnywhere ==
    /\ Looping
    /\ Recv({"q"})
    /\ proc' = "exited"
    /\ term' = Restored
    /\ last' = Arm("Quit", <<>>)
    /\ UNCHANGED <<file, state, selected, now>>

\* Projects, 'q': the terminal is restored and the loop ends
KeyQuit ==
    /\ Looping /\ state.tag = "Projects"
    /\ Recv({"q"})
    /\ proc' = "exited"
    /\ term' = Restored
    /\ last' = Arm("Quit", <<>>)
    /\ UNCHANGED <<file, state, selected, now>>

\* Projects, Down | 'j'
KeyDown ==
    /\ Looping /\ state.tag = "Projects"
    /\ Recv({"Down", "j"})
    /\ \E checks \in OverflowChecks :
        LET db == read_db(file)
            amount_tasks == Len(db.tasks)
            lim == usize_sub(amount_tasks, 1, checks)
        IN  /\ last' = Arm("Down", <<>>)
            /\ IF ~db.ok \/ ~lim.ok
               THEN proc' = "panicked" /\ UNCHANGED selected
               ELSE /\ selected' = IF selected >= lim.v THEN 0 ELSE selected + 1
                    /\ UNCHANGED proc
    /\ UNCHANGED <<file, state, term, now>>

\* Projects, Up | 'k'
KeyUp ==
    /\ Looping /\ state.tag = "Projects"
    /\ Recv({"Up", "k"})
    /\ \E checks \in OverflowChecks :
        LET db == read_db(file)
            amount_tasks == Len(db.tasks)
            lim == usize_sub(amount_tasks, 1, checks)
        IN  /\ last' = Arm("Up", <<>>)
            /\ IF ~db.ok \/ (selected = 0 /\ ~lim.ok)
               THEN proc' = "panicked" /\ UNCHANGED selected
               ELSE /\ selected' = IF selected > 0 THEN selected - 1 ELSE lim.v
                    /\ UNCHANGED proc
    /\ UNCHANGED <<file, state, term, now>>

\* Projects, ' ' | Enter: the toggle handler
KeyToggle ==
    /\ Looping /\ state.tag = "Projects"
    /\ Recv({" ", "Enter"})
    /\ \A i \in Running(Parsed(file)) : Len(Parsed(file)[i].times) < MaxFrames
    /\ \E rs \in Readings(toggle_calls(Parsed(file), selected)) :
        LET done == update_db(file, ToggleUpdater(selected, rs))
        IN  /\ file' = done.file
            /\ proc' = done.res
            /\ now' = Latest(rs)
            /\ last' = [Arm("Toggle", rs) EXCEPT !.again = (last.arm = "Toggle")]
    /\ UNCHANGED <<state, selected, term>>

\* Projects, 'a' | 'd' | '?' | Esc: a transition of the UI state alone
KeyModal ==
    /\ Looping /\ state.tag = "Projects"
    /\ \E key \in {"a", "d", "?", "Esc"} :
        LET tr == CASE key = "a" -> CreateNew [] key = "d" -> Delete
                    [] key = "?" -> ShowHelp [] key = "Esc" -> Escape
        IN  /\ Recv({key})
            /\ state' = transition(state, tr, TRUE).state
            /\ last' = Arm("Modal", <<>>)
    /\ UNCHANGED <<file, selected, proc, term, now>>

\* Projects, 'r': the report handler
KeyReport ==
    /\ Looping /\ state.tag = "Projects"
    /\ Recv({"r"})
    /\ LET db == read_db(file)
       IN  IF ~db.ok
           THEN /\ proc' = "failed"
                /\ last' = Arm("Report", <<>>)
                /\ UNCHANGED now
           ELSE \E rs \in Readings(Cardinality(Running(db.tasks))) :
                /\ now' = Latest(rs)
                /\ last' = [Arm("Report", rs) EXCEPT !.csv = csv(db.tasks, rs)]
                /\ UNCHANGED proc
    /\ UNCHANGED <<file, state, selected, term>>

\* CreateProject, Enter: the task is pushed, then Escape
KeyCreateEnter ==
    /\ Looping /\ state.tag = "CreateProject"
    /\ Recv({"Enter"})
    /\ Len(Parsed(file)) < MaxTasks
    /\ \E rs \in Readings(1) :
        LET done == update_db(file, PushUpdater(state.input, rs))
        IN  /\ file' = done.file
            /\ proc' = done.res
            /\ state' = IF done.res = "running"
                        THEN transition(state, Escape, TRUE).state ELSE state
            /\ now' = Latest(rs)
            /\ last' = Arm("CreateEnter", rs)
    /\ UNCHANGED <<selected, term>>

\* CreateProject, Char(c): without the channel the characters typed are
\* TypedChars and the buffer is capped; with it they are the characters sent
KeyCreateChar ==
    /\ Looping /\ state.tag = "CreateProject"
    /\ chan.queued \/ Len(state.input) < MaxInput
    /\ \E c \in CharKeys :
        /\ chan.queued \/ c \in TypedChars
        /\ Recv({c})
        /\ state' = transition(state, InputCharacter(c), TRUE).state
        /\ last' = Arm("CreateChar", <<>>)
    /\ UNCHANGED <<file, selected, proc, term, now>>

\* CreateProject, Backspace
KeyCreateBackspace ==
    /\ Looping /\ state.tag = "CreateProject"
    /\ Recv({"Backspace"})
    /\ \E checks \in OverflowChecks :
        LET done == transition(state, Delete, checks)
        IN  /\ state' = done.state
            /\ proc' = IF done.ok THEN proc ELSE "panicked"
    /\ last' = Arm("CreateBackspace", <<>>)
    /\ UNCHANGED <<file, selected, term, now>>

\* CreateProject, Esc
KeyCreateEsc ==
    /\ Looping /\ state.tag = "CreateProject"
    /\ Recv({"Esc"})
    /\ state' = transition(state, Escape, TRUE).state
    /\ last' = Arm("CreateEsc", <<>>)
    /\ UNCHANGED <<file, selected, proc, term, now>>

\* DeleteProject, Esc | 'n' | 'q'
KeyDeleteDecline ==
    /\ Looping /\ state.tag = "DeleteProject"
    /\ Recv({"Esc", "n", "q"})
    /\ state' = transition(state, Escape, TRUE).state
    /\ last' = Arm("DeleteDecline", <<>>)
    /\ UNCHANGED <<file, selected, proc, term, now>>

\* DeleteProject, 'y': the selected task is removed, then Escape
KeyDeleteConfirm ==
    /\ Looping /\ state.tag = "DeleteProject"
    /\ Recv({"y"})
    /\ LET done == update_db(file, RemoveUpdater(selected))
       IN  /\ file' = done.file
           /\ proc' = done.res
           /\ state' = IF done.res = "running"
                       THEN transition(state, Escape, TRUE).state ELSE state
    /\ last' = Arm("DeleteConfirm", <<>>)
    /\ UNCHANGED <<selected, term, now>>

\* Help, Esc | '?' | 'q'
KeyHelpClose ==
    /\ Looping /\ state.tag = "Help"
    /\ Recv({"Esc", "?", "q"})
    /\ state' = transition(state, Escape, TRUE).state
    /\ last' = Arm("HelpClose", <<>>)
    /\ UNCHANGED <<file, selected, proc, term, now>>

\* the keys of the arm _ => {} in each state
Ignored(tag) ==
    CASE tag = "Projects" ->
            KeyCodes \ {"q", "Down", "j", "Up", "k", " ", "Enter", "a", "d", "r",
                        "?", "Esc"}
      [] tag = "CreateProject" -> NamedKeys \ {"Enter", "Backspace", "Esc"}
      [] tag = "DeleteProject" -> KeyCodes \ {"Esc", "n", "q", "y"}
      [] tag = "Help" -> KeyCodes \ {"Esc", "?", "q"}

\* any state, a key of the arm _ => {}
KeyIgnored ==
    /\ Looping
    /\ Recv(Ignored(state.tag))
    /\ Ignored(state.tag) # {}
    /\ last' = Arm("Ignored", <<>>)
    /\ UNCHANGED <<file, state, selected, proc, term, now>>

\* the program is started again after it ended; store and clock stay
Restart ==
    /\ proc # "running"
    /\ state' = Projects
    /\ selected' = 0
    /\ proc' = "running"
    /\ term' = RawScreen
    /\ last' = Arm("start", <<>>)
    /\ UNCHANGED <<file, now, chan>>

Next ==
    \/ DrawPanic
    \/ Tick
    \/ KeyQuit
    \/ KeyDown
    \/ KeyUp
    \/ KeyToggle
    \/ KeyModal
    \/ KeyReport
    \/ KeyCreateEnter
    \/ KeyCreateChar
    \/ KeyCreateBackspace
    \/ KeyCreateEsc
    \/ KeyDeleteDecline
    \/ KeyDeleteConfirm
    \/ KeyHelpClose
    \/ KeyIgnored
    \/ Restart

Spec == Init /\ [][Next]_vars

----------------------------------------------------------------------------
(* The report formatter on its own: the store holds one stopped task whose *)
(* single TimeFrame is d seconds long, and the report key is pressed.      *)

ReportInit ==
    /\ \E d \in 0..MaxDur :
        /\ file = to_vec(<<[Task(0, <<"q">>, 0) EXCEPT
                    !.times = <<TimeFrame(0, 0, d * TicksPerSecond)>>]>>)
        /\ now = d * TicksPerSecond
    /\ state = Projects
    /\ selected = 0
    /\ proc = "running"
    /\ term = RawScreen
    /\ last = Arm("start", <<>>)
    /\ chan = NoQueue

ReportNext == KeyReport

ReportSpec == ReportInit /\ [][ReportNext]_vars

----------------------------------------------------------------------------
(* App::transition on its own: every State, every Transitions value *)

\* the characters of the buffers and of InputCharacter
TransitionChars == {"q", "e'"}

Inputs == UNION {[1..k -> TransitionChars] : k \in 0..MaxTyped}

States == {Projects, Help, DeleteProject} \cup {CreateProject(i) : i \in Inputs}

Transitions ==
    {CreateNew, Delete, Escape, ShowHelp}
        \cup {InputCharacter(c) : c \in TransitionChars}

TransitionInit ==
    /\ file = NoFile
    /\ state \in States
    /\ selected = 0
    /\ proc = "running"
    /\ term = RawScreen
    /\ now = 0
    /\ last = Arm("start", <<>>)
    /\ chan = NoQueue

\* app.transition(tr)
ApplyTransition ==
    /\ proc = "running"
    /\ \E tr \in Transitions, checks \in OverflowChecks :
        /\ tr.t = "InputCharacter" => Len(state.input) < MaxTyped
        /\ LET done == transition(state, tr, checks)
           IN  /\ state' = done.state
               /\ proc' = IF done.ok THEN "running" ELSE "panicked"
        /\ last' = [Arm("transition", <<>>) EXCEPT !.tr = tr]
    /\ UNCHANGED <<file, selected, term, now, chan>>

TransitionNext == ApplyTransition

TransitionSpec == TransitionInit /\ [][TransitionNext]_vars

----------------------------------------------------------------------------
(* Task::total_duration on its own: the store holds one task with any      *)
(* TimeFrames and any running_since, written by an earlier run; the system *)
(* clock may have been set back since, so running_since may be later than  *)
(* now.                                                                     *)

\* the times of a task: the k-th TimeFrame has id k - 1 (main.rs:308)
TimeFrames ==
    UNION {{[i \in 1..k |-> TimeFrame(i - 1, se[i][1], se[i][2])] :
              se \in [1..k -> {p \in (0..MaxInstant) \X (0..MaxInstant) :
                                  p[1] <= p[2]}]} :
           k \in 0..MaxFrames}

DurationInit ==
    /\ \E times \in TimeFrames,
          running_since \in {None} \cup {Some(t) : t \in 0..MaxInstant} :
        file = to_vec(<<[Task(0, <<"q">>, 0) EXCEPT
                    !.times = times, !.running_since = running_since]>>)
    /\ now \in 0..MaxInstant
    /\ state = Projects
    /\ selected = 0
    /\ proc = "running"
    /\ term = RawScreen
    /\ last = Arm("start", <<>>)
    /\ chan = NoQueue

\* task.total_duration() of the stored task, and the current_duration() it
\* calls; rs[1] is the reading of Utc::now() in current_duration
CallTotalDuration ==
    /\ proc = "running"
    /\ \E rs \in Readings(1) :
        /\ now' = Latest(rs)
        /\ last' = [Arm("total_duration", rs) EXCEPT
                        !.dur = [current |-> current_duration(Tasks[1], rs[1]),
                                 total |-> total_duration(Tasks[1], rs[1])]]
    /\ UNCHANGED <<file, state, selected, proc, term, chan>>

DurationNext == CallTotalDuration

DurationSpec == DurationInit /\ [][DurationNext]_vars

----------------------------------------------------------------------------
(* The loop behind its channel: the input-polling thread sends up to       *)
(* MaxSent messages, a Tick or one of a few keys, at any moment; the loop  *)
(* receives them one per iteration.                                        *)

\* the messages the thread sends: Event::Tick and Event::Input(key)
Messages == {"Tick", "a", "d", "?", "Esc", "Enter", "j", "y", "q"}

QueueInit ==
    /\ file = NoFile
    /\ state = Projects
    /\ selected = 0
    /\ proc = "running"
    /\ term = RawScreen
    /\ now = 0
    /\ last = Arm("start", <<>>)
    /\ chan = EmptyQueue

\* the input-polling thread: tx.send(Event::Input(key)), tx.send(Event::Tick)
Send ==
    /\ proc = "running"
    /\ Len(chan.sent) < MaxSent
    /\ \E msg \in Messages : chan' = send(chan, msg)
    /\ UNCHANGED <<file, state, selected, proc, term, now, last>>

QueueNext ==
    \/ Send
    \/ Tick
    \/ KeyQuit
    \/ KeyDown
    \/ KeyToggle
    \/ KeyModal
    \/ KeyCreateEnter
    \/ KeyCreateChar
    \/ KeyCreateEsc
    \/ KeyDeleteDecline
    \/ KeyDeleteConfirm
    \/ KeyHelpClose
    \/ KeyIgnored

QueueSpec == QueueInit /\ [][QueueNext]_vars

----------------------------------------------------------------------------
(* One iteration of the loop for every message in every UI state: the      *)
(* channel holds one message, a Tick or any key, and the loop is in any UI *)
(* state, over a store of up to MaxTasks tasks with any selection up to    *)
(* the length of the collection.                                           *)

\* a task that is new, one that ran and was stopped, one that is running
SampleTask(kind, id) ==
    CASE kind = "new" -> Task(id, <<"q">>, 0)
      [] kind = "stopped" ->
            [Task(id, <<"q">>, 0) EXCEPT !.times = <<TimeFrame(0, 0, 1)>>]
      [] kind = "running" ->
            [Task(id, <<"q">>, 0) EXCEPT !.running_since = Some(0)]

\* the collections of such tasks with at most one task running
SampleTasks ==
    {ts \in UNION {{[i \in 1..k |-> SampleTask(kinds[i], i - 1)] :
                      kinds \in [1..k -> {"new", "stopped", "running"}]} :
                   k \in 0..MaxTasks} :
        Cardinality(Running(ts)) <= 1}

KeyInit ==
    /\ file \in {NoFile} \cup {to_vec(ts) : ts \in SampleTasks}
    /\ state \in {Projects, Help, DeleteProject,
                   CreateProject(<<>>), CreateProject(<<"q">>)}
    /\ selected \in 0..Len(Parsed(file))
    /\ proc = "running"
    /\ term = RawScreen
    /\ now = 1
    /\ last = Arm("start", <<>>)
    /\ \E msg \in KeyCodes \cup {"Tick"} : chan = send(EmptyQueue, msg)

KeyNext ==
    \/ Tick
    \/ KeyQuit
    \/ KeyDown
    \/ KeyUp
    \/ KeyToggle
    \/ KeyModal
    \/ KeyReport
    \/ KeyCreateEnter
    \/ KeyCreateChar
    \/ KeyCreateBackspace
    \/ KeyCreateEsc
    \/ KeyDeleteDecline
    \/ KeyDeleteConfirm
    \/ KeyHelpClose
    \/ KeyIgnored

KeySpec == KeyInit /\ [][KeyNext]_vars

----------------------------------------------------------------------------
(* Properties *)

\* the stored collection before and after a step
Before == Parsed(file)
After == Parsed(file')

\* a step of the loop that takes the given arm
Takes(arm) == proc = "running" /\ last'.arm = arm

Frames(task) == [i \in 1..Len(task.times) |->
                    <<task.times[i].start_time, task.times[i].end_time>>]

\* C1: in every reachable state of the stored collection at most one task
\* has running_since set.
C1_AtMostOneRunning == Cardinality(Running(Parsed(file))) <= 1

\* a toggle has switched the timer from one task to another
C1_Witness ==
    /\ last.arm = "Toggle"
    /\ Len(Parsed(file)) >= 2
    /\ Cardinality(Running(Parsed(file))) = 1
    /\ \E i \in 1..Len(Parsed(file)) :
        ~is_running(Parsed(file)[i]) /\ Parsed(file)[i].times # <<>>

C3_TogglePairing ==
    [][(Takes("Toggle") /\ selected < Len(Before))
       => LET i == selected + 1 IN
          /\ ~is_running(Before[i]) =>
                /\ After[i].running_since = Some(last'.clock[Len(last'.clock)])
                /\ After[i].times = Before[i].times
          /\ is_running(Before[i]) =>
                /\ Running(After) = {}
                /\ Len(After[i].times) = Len(Before[i].times) + 1
          /\ (is_running(Before[i]) /\ last.arm = "Toggle") =>
                /\ ~is_running(After[i])
                /\ Frames(After[i]) =
                     Append(Frames(Before[i]),
                            <<last.clock[Len(last.clock)], last'.clock[1]>>)]_vars

\* two toggles of the same task in a row have closed one TimeFrame on it
C3_Witness ==
    /\ last.arm = "Toggle" /\ last.again
    /\ Len(last.clock) = 1
    /\ Running(Parsed(file)) = {}
    /\ selected < Len(Parsed(file))
    /\ Parsed(file)[selected + 1].times # <<>>
    /\ LET times == Parsed(file)[selected + 1].times
       IN  /\ times[Len(times)].end_time = last.clock[1]
           /\ times[Len(times)].start_time < times[Len(times)].end_time

\* C4: the toggle key while the selection addresses no task is a no-op: the
\* program does not abort and the stored collection is unchanged.
C4_ToggleOutOfRange ==
    [][(Takes("Toggle") /\ selected >= Len(Before))
       => (proc' = "running" /\ After = Before)]_vars

\* C5: whenever the task list is not empty the selection is less than its
\* length.
C5_SelectionValid ==
    (proc = "running" /\ Len(Tasks) > 0) => selected < Len(Tasks)

\* C6: on a list of K tasks, down at K-1 selects 0 and otherwise the next
\* index, up at 0 selects K-1 and otherwise the index before; for K = 0
\* neither key changes the selection or aborts the program.
C6_Wraparound ==
    [][LET K == Len(Tasks) IN
       /\ (Takes("Down") /\ K = 0) => (selected' = selected /\ proc' = "running")
       /\ (Takes("Up") /\ K = 0) => (selected' = selected /\ proc' = "running")
       /\ (Takes("Down") /\ selected < K) =>
             /\ proc' = "running"
             /\ selected' = IF selected = K - 1 THEN 0 ELSE selected + 1
       /\ (Takes("Up") /\ selected < K) =>
             /\ proc' = "running"
             /\ selected' = IF selected = 0 THEN K - 1 ELSE selected - 1]_vars

\* C7: Backspace in CreateProject drops the last character of the input, and
\* on the empty input it is a no-op: no underflow, no abort.
C7_Backspace ==
    [][Takes("CreateBackspace")
       => (/\ proc' = "running"
           /\ state' = CreateProject(
                 IF state.input = <<>> THEN <<>>
                 ELSE SubSeq(state.input, 1, Len(state.input) - 1)))]_vars

\* C8: Enter in CreateProject appends exactly one task, with the input as
\* its project, no times, not running and the former length as its id; the
\* tasks before it stay as they are and the UI state becomes Projects.
C8_CreateAppends ==
    [][Takes("CreateEnter")
       => (/\ proc' = "running"
           /\ state' = Projects
           /\ Len(After) = Len(Before) + 1
           /\ SubSeq(After, 1, Len(Before)) = Before
           /\ After[Len(After)].project = state.input
           /\ After[Len(After)].times = <<>>
           /\ After[Len(After)].running_since = None
           /\ After[Len(After)].id = Len(Before))]_vars

\* Enter has appended a second task behind one with a history
C8_Witness ==
    /\ last.arm = "CreateEnter"
    /\ state = Projects
    /\ Len(Parsed(file)) = 2
    /\ Parsed(file)[1].times # <<>>
    /\ Parsed(file)[2].id = 1
    /\ Parsed(file)[2].project = <<"q">>

\* C9: 'y' in DeleteProject removes exactly the selected task and returns to
\* Projects, removing nothing and not aborting when the selection addresses
\* no task; 'n', 'q' and Esc return to Projects and leave the store alone.
C9_Delete ==
    [][/\ Takes("DeleteConfirm") =>
             /\ proc' = "running"
             /\ state' = Projects
             /\ After = IF selected < Len(Before)
                        THEN SubSeq(Before, 1, selected)
                             \o SubSeq(Before, selected + 2, Len(Before))
                        ELSE Before
       /\ Takes("DeleteDecline") =>
             (proc' = "running" /\ state' = Projects /\ file' = file)]_vars

\* the cell the report is to hold for a total of secs whole seconds: HH:MM
\* of secs rounded up to a multiple of 15 minutes
RoundedCell(secs) ==
    LET quarters == IF secs % 900 = 0 THEN secs \div 900 ELSE secs \div 900 + 1
        hh == (15 * quarters) \div 60
        mm == (15 * quarters) % 60
    IN  Pad2(Display(hh)) \o <<":">> \o Pad2(Display(mm))

\* C10: the report cell of a task with a total of d whole seconds is HH:MM
\* with HH*60 + MM = 15 * ceil(d / 900) and MM one of 00, 15, 30, 45.
C10_ReportRounding ==
    (last.arm = "Report" /\ proc = "running") =>
        \A i \in 1..Len(Tasks) :
            last.csv[i + 1] = Tasks[i].project \o <<",">> \o
                              RoundedCell(total_duration(Tasks[i], now))

\* C11: a store whose file does not exist loads as the empty collection and
\* without an error: the draw and the report read no task, and Enter in
\* CreateProject pushes its task onto the empty collection; the toggle and
\* the delete updaters run on the empty collection too (no store error).
C11_MissingStore ==
    [][(proc = "running" /\ file.kind = "missing")
       => (/\ read_db(file) = [ok |-> TRUE, tasks |-> <<>>]
           /\ last'.arm # "draw"
           /\ proc' # "failed"
           /\ Takes("Report") =>
                 (proc' = "running" /\ last'.csv = <<<<"Project,Duration">>>>)
           /\ Takes("CreateEnter") =>
                 /\ proc' = "running"
                 /\ After = <<Task(0, state.input, last'.clock[1])>>)]_vars

\* Enter in CreateProject has written the first task to a store that did not
\* exist
C11_Witness ==
    /\ last.arm = "CreateEnter"
    /\ last.store = "missing"
    /\ proc = "running"
    /\ file.kind = "json"
    /\ Len(file.tasks) = 1

\* C12: a store file with empty contents loads as the empty collection on the
\* read path as on the mutate path: read_db yields no task and no error, and
\* the draw that reads the store does not end the process.
C12_EmptyStore ==
    [][(proc = "running" /\ file.kind = "empty")
       => (/\ read_db(file) = [ok |-> TRUE, tasks |-> <<>>]
           /\ update_db(file, PushUpdater(<<>>, <<now>>)).res = "running"
           /\ last'.arm # "draw")]_vars

\* C13: a mutation of the store is all or nothing: a handler that ends the
\* process leaves a store that loads and holds the collection from before, and
\* after every step the store can be loaded.
C13_AllOrNothing ==
    [][/\ read_db(file').ok
       /\ (proc = "running" /\ proc' \in {"panicked", "failed"})
            => read_db(file').tasks = read_db(file).tasks]_vars

\* C14: when the main loop has ended, by the quit key, by a store error in a
\* handler or by a store error in the draw, the terminal is restored.
C14_TerminalRestored ==
    (\/ proc = "exited"
     \/ proc = "failed"
     \/ (proc = "panicked" /\ last.arm = "draw"))
    => term = Restored

\* C16: no two tasks of the store have the same id.
C16_UniqueIds ==
    \A i \in 1..Len(Tasks) : \A j \in 1..Len(Tasks) :
        i # j => Tasks[i].id # Tasks[j].id

\* C17: every task of the store has a non-empty project name.
C17_NonEmptyProject ==
    \A i \in 1..Len(Tasks) : Tasks[i].project # <<>>

\* the table of the UI state machine; Transitions::Delete in CreateProject is
\* its Backspace row (a no-op on the empty buffer)
Table(st, tr) ==
    CASE st = Projects /\ tr = CreateNew -> CreateProject(<<>>)
      [] st = Projects /\ tr = Delete -> DeleteProject
      [] st = Projects /\ tr = ShowHelp -> Help
      [] st \in {Help, DeleteProject} /\ tr = Escape -> Projects
      [] st.tag = "CreateProject" /\ tr = Escape -> Projects
      [] st.tag = "CreateProject" /\ tr.t = "InputCharacter" ->
            CreateProject(st.input \o <<tr.c>>)
      [] st.tag = "CreateProject" /\ tr = Delete /\ st.input # <<>> ->
            CreateProject(SubSeq(st.input, 1, Len(st.input) - 1))
      [] OTHER -> st

\* C15: App::transition equals the table of the UI state machine: for every
\* state and every transition the call returns and the state after it is the
\* one of the table; every pair the table does not list leaves the state
\* unchanged.
C15_TransitionTable ==
    [][Takes("transition")
       => (proc' = "running" /\ state' = Table(state, last'.tr))]_vars

RECURSIVE SumSeq(_)
SumSeq(seq) == IF seq = <<>> THEN 0 ELSE Head(seq) + SumSeq(Tail(seq))

\* the whole seconds of each TimeFrame of a task
FrameSeconds(task) ==
    [i \in 1..Len(task.times) |->
        (task.times[i].end_time - task.times[i].start_time) \div TicksPerSecond]

\* C18: duration additivity: total_duration is the sum over the TimeFrames of
\* the whole seconds of end_time - start_time, plus the whole seconds of
\* current_duration; it is 0 for a task with no TimeFrame that is not
\* running; and the call changes no state.
C18_DurationAdditivity ==
    [][Takes("total_duration")
       => (/\ last'.dur.total = SumSeq(FrameSeconds(Tasks[1]))
                                  + num_seconds(last'.dur.current)
           /\ (Tasks[1].times = <<>> /\ ~is_running(Tasks[1]))
                => last'.dur.total = 0
           /\ UNCHANGED <<file, state, selected, proc, term>>)]_vars

\* total_duration of a running task with two TimeFrames of half a second
\* each: the whole seconds of the TimeFrames are 0, those of the running
\* interval are 1
C18_Witness ==
    /\ last.arm = "total_duration"
    /\ is_running(Tasks[1])
    /\ Len(Tasks[1].times) = 2
    /\ \A i \in 1..2 : Tasks[1].times[i].end_time
                           = Tasks[1].times[i].start_time + 1
    /\ last.dur.current >= TicksPerSecond
    /\ last.dur.total = 1

\* C19: current_duration never returns a negative duration: when
\* running_since is later than the reading of the clock, the call ends the
\* process with a fatal error instead of returning.
C19_NoNegativeDuration ==
    [][Takes("total_duration")
       => (/\ last'.dur.current >= 0
           /\ (is_running(Tasks[1])
                 /\ Tasks[1].running_since.at > last'.clock[1])
                => proc' # "running")]_vars

\* the channel holds the messages sent and not yet received, in the order
\* sent
InOrder(ch) == ch.rx = SubSeq(ch.sent, ch.nrecv + 1, Len(ch.sent))

\* an iteration of the loop that receives a message
Receives == proc = "running" /\ chan'.nrecv # chan.nrecv

\* C20: the loop consumes the channel one message per iteration and in the
\* order sent: the k-th iteration handles the k-th message sent, a Tick in
\* the Tick arm and a key in an arm of Event::Input; and consuming a Tick
\* changes neither the UI state nor the selection nor the stored collection,
\* whatever the UI state and whatever is sent before and behind it.
C20_QueueOrderTickNoop ==
    [][/\ InOrder(chan) /\ InOrder(chan')
       /\ last' # last => Receives
       /\ Receives =>
            /\ chan'.nrecv = chan.nrecv + 1
            /\ chan'.sent = chan.sent
            /\ (last'.arm = "Tick") = (chan.sent[chan'.nrecv] = "Tick")
            /\ chan.sent[chan'.nrecv] = "Tick" =>
                  UNCHANGED <<state, selected, file, proc, term>>]_vars

\* a Tick received in CreateProject, between the key that opened it and a key
\* still in the channel
C20_Witness ==
    /\ chan.queued
    /\ last.arm = "Tick"
    /\ chan.nrecv = 2
    /\ chan.sent[1] = "a" /\ chan.sent[2] = "Tick"
    /\ chan.rx = <<"Enter">>
    /\ state = CreateProject(<<>>)

\* a step of the toggle handler whose updater finds the selected task
Toggles == Takes("Toggle") /\ selected < Len(Before)

\* the reading of the clock a toggle makes for the i-th task: the end_time of
\* the TimeFrame when the task was running, the new running_since when the
\* task is the selected one and was stopped; no reading is made for any
\* other task, nor by a create, and the task is looked at when the handler
\* is done
ReadingFor(i) ==
    IF Toggles /\ is_running(Before[i])
    THEN last'.clock[Cardinality({j \in Running(Before) : j <= i})]
    ELSE IF Toggles /\ i = selected + 1
    THEN last'.clock[Len(last'.clock)]
    ELSE now'

\* C21: under a non-decreasing clock no toggle and no create loses tracked
\* time: for every task, total_duration at the instant the handler reads the
\* clock for it is the same after the handler as before it, a task that is
\* stopped gets a TimeFrame as long as its open interval, and total_duration
\* after the handler is not less than before it.
C21_NoTimeLost ==
    [][(Takes("Toggle") \/ Takes("CreateEnter"))
       => (/\ Len(After) >= Len(Before)
           /\ \A i \in 1..Len(Before) :
               /\ now <= ReadingFor(i) /\ ReadingFor(i) <= now'
               /\ total_duration(After[i], ReadingFor(i))
                    = total_duration(Before[i], ReadingFor(i))
               /\ total_duration(After[i], now')
                    >= total_duration(Before[i], now)
               /\ (Toggles /\ is_running(Before[i])) =>
                    /\ ~is_running(After[i])
                    /\ Len(After[i].times) = Len(Before[i].times) + 1
                    /\ LET frame == After[i].times[Len(After[i].times)]
                       IN  frame.end_time - frame.start_time
                             = current_duration(Before[i], ReadingFor(i)))]_vars

\* a toggle has stopped a task that had run for a whole second: the second
\* is in its TimeFrame
C21_Witness ==
    /\ last.arm = "Toggle"
    /\ proc = "running"
    /\ \E i \in 1..Len(Tasks) :
        /\ ~is_running(Tasks[i])
        /\ Tasks[i].times # <<>>
        /\ LET frame == Tasks[i].times[Len(Tasks[i].times)]
           IN  /\ frame.end_time = last.clock[1]
               /\ frame.end_time - frame.start_time >= TicksPerSecond
        /\ total_duration(Tasks[i], now) >= 1

\* C22: modal isolation: in an iteration of the loop the store changes only
\* on the toggle keys in Projects, on Enter in CreateProject and on 'y' in
\* DeleteProject; the selection changes only on the up and down keys in
\* Projects; and the loop ends by quitting only on 'q' in Projects.  Every
\* other key in every UI state, and a Tick, leaves store and selection
\* unchanged.
C22_ModalIsolation ==
    [][Receives
       => LET key == recv(chan.rx).msg IN
          /\ file' # file =>
                \/ state.tag = "Projects" /\ key \in {" ", "Enter"}
                \/ state.tag = "CreateProject" /\ key = "Enter"
                \/ state.tag = "DeleteProject" /\ key = "y"
          /\ selected' # selected =>
                state.tag = "Projects" /\ key \in {"Down", "j", "Up", "k"}
          /\ proc' = "exited" => (state.tag = "Projects" /\ key = "q")]_vars

\* 'q' received in DeleteProject over a store of MaxTasks tasks: the modal
\* is closed, the loop goes on and store and selection are as they were
C22_Witness ==
    /\ chan.sent = <<"q">> /\ chan.nrecv = 1
    /\ last.arm = "DeleteDecline"
    /\ state = Projects
    /\ proc = "running"
    /\ Len(Tasks) = MaxTasks
    /\ selected = 1

====
